---- MODULE Spec2Model ----
(***************************************************************************)
(* Model of scripts/etsy-pipeline.py: the identity resolver (product_key), *)
(* the pricing and tag generators (calculate_price, generate_tags) and the *)
(* pipeline orchestrator (main).                                           *)
(*                                                                         *)
(* Text the code inspects character by character (file stems, product     *)
(* keys, tags, directory names) is a sequence of one-character strings.   *)
(* Text the code only compares or concatenates (categories, labels,       *)
(* output paths of the orchestrator) is a TLA+ string.                     *)
(***************************************************************************)
EXTENDS Integers, Sequences, FiniteSets, TLC

VARIABLES
    \* ---- main(): the orchestrator ----
    pc,                 \* position in main()
    files,              \* the files iter_images yields, in enumeration order
    groups,             \* groups: product key -> sorted file list (insertion order)
    gi,                 \* index of the group the loop is at
    im,                 \* the loaded primary image of the current group
    vi,                 \* index into VARIANTS of the next variant to save
    variant_paths,      \* label -> output path, of the current group
    ei,                 \* enumerate() index i of the extras loop
    additional_images,  \* extra paths of the current group
    metadata,           \* category and location of the current group
    product,            \* price and tags of the current group
    etsy_listings,      \* the marketplace records
    website_products,   \* the website records
    written,            \* every image path handed to save(), in order
    dirs,               \* product directories created
    outcome,            \* per group: how its iteration ended
    report,             \* processing_report.json
    exported,           \* the three catalog files written at export
    \* ---- calls of the pure functions ----
    fpc,                \* "call" before the function ran, "ret" after
    arg,                \* its arguments
    res                 \* its result

locals == <<im, vi, variant_paths, ei, additional_images, metadata, product>>
pipeVars == <<pc, files, groups, gi, im, vi, variant_paths, ei, additional_images,
              metadata, product, etsy_listings, website_products, written, dirs,
              outcome, report, exported>>
funVars == <<fpc, arg, res>>
vars == <<pc, files, groups, gi, im, vi, variant_paths, ei, additional_images,
          metadata, product, etsy_listings, website_products, written, dirs,
          outcome, report, exported, fpc, arg, res>>

-----------------------------------------------------------------------------
(* Characters *)

LowerLetters == {"a","b","c","d","e","f","g","h","i","j","k","l","m",
                 "n","o","p","q","r","s","t","u","v","w","x","y","z"}
UpperLetters == {"A","B","C","D","E","F","G","H","I","J","K","L","M",
                 "N","O","P","Q","R","S","T","U","V","W","X","Y","Z"}
Digits == {"0","1","2","3","4","5","6","7","8","9"}

UpperToLower ==
    "A" :> "a" @@ "B" :> "b" @@ "C" :> "c" @@ "D" :> "d" @@ "E" :> "e" @@
    "F" :> "f" @@ "G" :> "g" @@ "H" :> "h" @@ "I" :> "i" @@ "J" :> "j" @@
    "K" :> "k" @@ "L" :> "l" @@ "M" :> "m" @@ "N" :> "n" @@ "O" :> "o" @@
    "P" :> "p" @@ "Q" :> "q" @@ "R" :> "r" @@ "S" :> "s" @@ "T" :> "t" @@
    "U" :> "u" @@ "V" :> "v" @@ "W" :> "w" @@ "X" :> "x" @@ "Y" :> "y" @@
    "Z" :> "z"

\* str.lower() on one character
LowerChar(c) == IF c \in UpperLetters THEN UpperToLower[c] ELSE c

\* str.lower()
RECURSIVE Lower(_)
Lower(s) == IF s = <<>> THEN <<>> ELSE <<LowerChar(Head(s))>> \o Lower(Tail(s))

Rep(c, n) == [i \in 1..n |-> c]

Min(S) == CHOOSE x \in S : \A y \in S : x <= y

-----------------------------------------------------------------------------
(* PRODUCT_REGEX, matched against the file name with re.I.  The name is    *)
(* stem + "." + extension; iter_images yields only names whose extension   *)
(* is in ALLOWED_EXT, which is the extension alternative of the pattern,   *)
(* so the match is decided on the stem, which must be consumed entirely.   *)

\* [A-Za-z0-9\-_ ]
NameChars == LowerLetters \cup UpperLetters \cup Digits \cup {"-", "_", " "}
\* [-_ ]
SepChars == {"-", "_", " "}
\* [a-f0-9] under re.I
HexChars == Digits \cup {"a","b","c","d","e","f","A","B","C","D","E","F"}
\* (main|extra|listing)
Roles == { <<"m","a","i","n">>, <<"e","x","t","r","a">>,
           <<"l","i","s","t","i","n","g">> }

\* the word w stands in s right after position p (case-insensitively)
StartsAt(s, p, w) ==
    /\ p + Len(w) <= Len(s)
    /\ \A i \in 1..Len(w) : LowerChar(s[p + i]) = w[i]

\* Each operator maps the set of positions the match may be at to the set
\* it may be at after one more element of the pattern.
OptSep(P, s) == P \cup { p + 1 : p \in { q \in P : q < Len(s) /\ s[q + 1] \in SepChars } }
OptRole(P, s) ==
    P \cup { p + Len(w) : <<p, w>> \in { x \in P \X Roles : StartsAt(s, x[1], x[2]) } }
DigitsUpTo2(P, s) ==
    P \cup { p + 1 : p \in { q \in P : q + 1 <= Len(s) /\ s[q + 1] \in Digits } }
      \cup { p + 2 : p \in { q \in P : q + 2 <= Len(s) /\ s[q + 1] \in Digits
                                                         /\ s[q + 2] \in Digits } }
Digits4(P, s) ==
    { p + 4 : p \in { q \in P : q + 4 <= Len(s)
                                /\ \A i \in 1..4 : s[q + i] \in Digits } }
HexStar(P, s) ==
    { q \in 0..Len(s) : \E p \in P : p <= q /\ \A i \in (p + 1)..q : s[i] \in HexChars }

\* [-_ ]?(main|extra|listing)?[-_ ]?\d{0,2}[-_ ]?\d{4}[-_ ]?[a-f0-9]* matches
\* s from position k to its end
TailMatches(s, k) ==
    Len(s) \in HexStar(OptSep(Digits4(OptSep(DigitsUpTo2(OptSep(OptRole(
                   OptSep({k}, s), s), s), s), s), s), s), s)

\* the lengths group 1 may have: one or more name characters, then the tail
Group1Lens(s) ==
    { k \in 1..Len(s) : /\ \A i \in 1..k : s[i] \in NameChars
                        /\ TailMatches(s, k) }

\* PRODUCT_REGEX.match(p.name): group 1 is lazy, so the shortest one is taken
RegexMatches(s) == Group1Lens(s) # {}
RegexGroup1(s) == SubSeq(s, 1, Min(Group1Lens(s)))

-----------------------------------------------------------------------------
(* slugify(stem, max_length=50) of python-slugify on ASCII text: lowercase, *)
(* every run of characters outside [a-z0-9] becomes one "-", hyphens at the *)
(* ends are stripped, the result is cut to max_length and stripped again.   *)

SLUG_MAX_LENGTH == 50

SlugChars == LowerLetters \cup Digits

\* re.sub("[^-a-zA-Z0-9]+", "-", text) then re.sub("-{2,}", "-", text): out is
\* the text produced so far
RECURSIVE CollapseInto(_, _)
CollapseInto(out, s) ==
    IF s = <<>> THEN out
    ELSE IF Head(s) \in SlugChars THEN CollapseInto(Append(out, Head(s)), Tail(s))
    ELSE IF out # <<>> /\ out[Len(out)] = "-" THEN CollapseInto(out, Tail(s))
    ELSE CollapseInto(Append(out, "-"), Tail(s))
CollapseRuns(s) == CollapseInto(<<>>, s)

\* str.strip("-")
RECURSIVE StripLeft(_)
StripLeft(s) == IF s # <<>> /\ Head(s) = "-" THEN StripLeft(Tail(s)) ELSE s
RECURSIVE StripRight(_)
StripRight(s) ==
    IF s # <<>> /\ s[Len(s)] = "-" THEN StripRight(SubSeq(s, 1, Len(s) - 1)) ELSE s
Strip(s) == StripRight(StripLeft(s))

\* smart_truncate(text, max_length) without word boundaries
Truncate(s, n) == IF Len(s) < n THEN s ELSE Strip(SubSeq(s, 1, n))

slugify(text) == Truncate(Strip(CollapseRuns(Lower(text))), SLUG_MAX_LENGTH)

-----------------------------------------------------------------------------
(* product_key *)

\* p.stem.split('_')[0]
RECURSIVE BeforeUnderscore(_)
BeforeUnderscore(s) ==
    IF s = <<>> \/ Head(s) = "_" THEN <<>>
    ELSE <<Head(s)>> \o BeforeUnderscore(Tail(s))

HasUnderscore(s) == \E i \in 1..Len(s) : s[i] = "_"

product_key(stem) ==
    LET raw == IF RegexMatches(stem) THEN RegexGroup1(stem)
               ELSE IF HasUnderscore(stem) THEN BeforeUnderscore(stem)
               ELSE stem
    IN  slugify(raw)

-----------------------------------------------------------------------------
(* Category and location names *)

Other == <<"O","t","h","e","r">>
Architecture == <<"A","r","c","h","i","t","e","c","t","u","r","e">>
Landscapes == <<"L","a","n","d","s","c","a","p","e","s">>
Cityscapes == <<"C","i","t","y","s","c","a","p","e","s">>
Nature == <<"N","a","t","u","r","e">>
California == <<"C","a","l","i","f","o","r","n","i","a">>
Hawaii == <<"H","a","w","a","i","i">>
Arizona == <<"A","r","i","z","o","n","a">>

\* "".join(chars): the TLA+ string of a character sequence
RECURSIVE Str(_)
Str(cs) == IF cs = <<>> THEN "" ELSE Head(cs) \o Str(Tail(cs))

\* the TLA+ strings of a list of character sequences
RECURSIVE StrAll(_)
StrAll(css) == IF css = <<>> THEN <<>> ELSE <<Str(Head(css))>> \o StrAll(Tail(css))

-----------------------------------------------------------------------------
(* calculate_price *)

PRICE_MATRIX ==
    Architecture :> (California :> 45 @@ Hawaii :> 55 @@ Arizona :> 40 @@ Other :> 35) @@
    Landscapes   :> (California :> 50 @@ Hawaii :> 65 @@ Arizona :> 45 @@ Other :> 40) @@
    Cityscapes   :> (California :> 45 @@ Hawaii :> 55 @@ Arizona :> 40 @@ Other :> 35) @@
    Nature       :> (California :> 40 @@ Hawaii :> 60 @@ Arizona :> 35 @@ Other :> 30) @@
    Other        :> (California :> 35 @@ Hawaii :> 45 @@ Arizona :> 30 @@ Other :> 25)

\* what a call does: it returns a value or raises
Returned(v) == [raised |-> FALSE, value |-> v]
Raised == [raised |-> TRUE, value |-> 0]

\* d.get(k, default)
Get(d, k, default) == IF k \in DOMAIN d THEN d[k] ELSE default

\* a bug: PRICE_MATRIX[category][location], no fallback
calculate_price_NoFallback(category, location) ==
    IF category \notin DOMAIN PRICE_MATRIX THEN Raised
    ELSE IF location \notin DOMAIN PRICE_MATRIX[category] THEN Raised
    ELSE Returned(PRICE_MATRIX[category][location])

\* Both defaults are evaluated before .get is called, so a missing "Other"
\* row or column raises KeyError whatever the arguments are.
calculate_price(category, location) ==
    IF Other \notin DOMAIN PRICE_MATRIX THEN Raised
    ELSE LET cat_prices == Get(PRICE_MATRIX, category, PRICE_MATRIX[Other])
         IN  IF Other \notin DOMAIN cat_prices THEN Raised
             ELSE Returned(Get(cat_prices, location, cat_prices[Other]))

-----------------------------------------------------------------------------
(* generate_tags *)

DEFAULT_TAGS == << <<"f","i","n","e"," ","a","r","t"," ","p","r","i","n","t">>,
                   <<"p","h","o","t","o","g","r","a","p","h","y">>,
                   <<"w","a","l","l"," ","a","r","t">>,
                   <<"l","a","n","d","s","c","a","p","e">>,
                   <<"h","o","m","e"," ","d","e","c","o","r">> >>

LandscapesTags == << <<"n","a","t","u","r","e">>, <<"s","c","e","n","i","c">>,
                     <<"l","a","n","d","s","c","a","p","e"," ","p","h","o","t","o","g","r","a","p","h","y">> >>
ArchitectureTags == << <<"b","u","i","l","d","i","n","g">>, <<"s","t","r","u","c","t","u","r","e">>,
                       <<"a","r","c","h","i","t","e","c","t","u","r","a","l">> >>
CityscapesTags == << <<"u","r","b","a","n">>, <<"c","i","t","y">>, <<"s","k","y","l","i","n","e">> >>
NatureTags == << <<"n","a","t","u","r","a","l">>, <<"o","u","t","d","o","o","r">>,
                 <<"w","i","l","d","e","r","n","e","s","s">> >>

\* the if/elif chain on category
CategoryTags(category) ==
    IF category = Landscapes THEN LandscapesTags
    ELSE IF category = Architecture THEN ArchitectureTags
    ELSE IF category = Cityscapes THEN CityscapesTags
    ELSE IF category = Nature THEN NatureTags
    ELSE <<>>

\* str.replace("-", " ")
RECURSIVE ReplaceHyphens(_)
ReplaceHyphens(s) ==
    IF s = <<>> THEN <<>>
    ELSE <<IF Head(s) = "-" THEN " " ELSE Head(s)>> \o ReplaceHyphens(Tail(s))

\* str.split(): the maximal runs of characters other than whitespace
RECURSIVE SplitFrom(_, _)
SplitFrom(s, word) ==
    IF s = <<>> THEN (IF word = <<>> THEN <<>> ELSE <<word>>)
    ELSE IF Head(s) = " "
         THEN (IF word = <<>> THEN <<>> ELSE <<word>>) \o SplitFrom(Tail(s), <<>>)
         ELSE SplitFrom(Tail(s), Append(word, Head(s)))
Split(s) == SplitFrom(s, <<>>)

\* [k for k in keywords if len(k) > 2]
LongKeywords(key) == SelectSeq(Split(ReplaceHyphens(key)), LAMBDA k : Len(k) > 2)

\* list(dict.fromkeys(tags)): the first occurrence of every entry, in order
RECURSIVE FromKeys(_, _)
FromKeys(tags, seen) ==
    IF tags = <<>> THEN <<>>
    ELSE IF Head(tags) \in seen THEN FromKeys(Tail(tags), seen)
    ELSE <<Head(tags)>> \o FromKeys(Tail(tags), seen \cup {Head(tags)})

\* xs[:n]
Take(xs, n) == SubSeq(xs, 1, IF Len(xs) < n THEN Len(xs) ELSE n)

ETSY_MAX_TAGS == 13

\* tags.extend(...) three times: the list before deduplication
AllTags(key, category, location) ==
    DEFAULT_TAGS \o CategoryTags(category)
                 \o (IF location # Other THEN <<Lower(location)>> ELSE <<>>)
                 \o LongKeywords(key)

\* a bug: the list is cut to 13 without removing duplicates
generate_tags_NoDedup(key, category, location) ==
    Take(AllTags(key, category, location), ETSY_MAX_TAGS)

generate_tags(key, category, location) ==
    Take(FromKeys(AllTags(key, category, location), {}), ETSY_MAX_TAGS)

-----------------------------------------------------------------------------
(* The orchestrator's variables while a pure function is exercised alone *)

NoImage == [loaded |-> FALSE, src |-> 0]
NoReport == [written |-> FALSE]

PipelineIdle ==
    /\ pc = "idle"
    /\ files = <<>>
    /\ groups = <<>>
    /\ gi = 0
    /\ im = NoImage
    /\ vi = 0
    /\ variant_paths = <<>>
    /\ ei = 0
    /\ additional_images = <<>>
    /\ metadata = <<>>
    /\ product = <<>>
    /\ etsy_listings = <<>>
    /\ website_products = <<>>
    /\ written = <<>>
    /\ dirs = {}
    /\ outcome = <<>>
    /\ report = NoReport
    /\ exported = <<>>

-----------------------------------------------------------------------------
(* product_key on every stem over a small alphabet, and on some long stems *)

MaxStemLen == 5

\* a hex letter, a letter that is neither hex nor lowercase, a digit, the
\* separators the fallback and the pattern treat differently, and a character
\* outside the pattern's classes
StemAlphabet == {"a", "G", "7", "_", "-", "."}

ShortStems == UNION { [1..n -> StemAlphabet] : n \in 1..MaxStemLen }

LongStems ==
    { <<"B","i","g","_","S","u","r","_","C","o","a","s","t","a","l","_","S","u","n","s","e","t","_","m","a","i","n","_","0","1","_","1","2","3","4","_","a","b","c","d">>,
      Rep("x", 60),
      Rep("x", 49) \o <<".", "y", "y">>,
      Rep("x", 55) \o <<"_", "1", "2", "3", "4">>,
      <<"O","a","k"," ","B","a","y","-","l","i","s","t","i","n","g","-","2","0","2","4">>,
      <<"I","M","G","_","2","0","2","4","0","1","0","1","_","s","u","n","s","e","t">> }

Stems == ShortStems \cup LongStems

InitKey ==
    /\ PipelineIdle
    /\ fpc = "call"
    /\ arg \in Stems
    /\ res = <<>>

CallProductKey ==
    /\ fpc = "call"
    /\ res' = product_key(arg)
    /\ fpc' = "ret"
    /\ UNCHANGED <<arg, pipeVars>>

NextKey == CallProductKey

SpecKey == InitKey /\ [][NextKey]_vars

-----------------------------------------------------------------------------
(* calculate_price on categories and locations in and outside the matrix *)

PriceCategories ==
    DOMAIN PRICE_MATRIX \cup {<<>>, Lower(Nature), Hawaii, <<"P","o","r","t","r","a","i","t","s">>,
                              <<"W","i","l","d","l","i","f","e">>}
PriceLocations ==
    {California, Hawaii, Arizona, Other, <<>>, Lower(Hawaii), Nature,
     <<"O","r","e","g","o","n">>, <<"M","a","u","i">>, <<"U","t","a","h">>}

InitPrice ==
    /\ PipelineIdle
    /\ fpc = "call"
    /\ arg \in [category : PriceCategories, location : PriceLocations]
    /\ res = <<>>

CallCalculatePrice ==
    /\ fpc = "call"
    /\ res' = calculate_price(arg.category, arg.location)
    /\ fpc' = "ret"
    /\ UNCHANGED <<arg, pipeVars>>

NextPrice == CallCalculatePrice

SpecPrice == InitPrice /\ [][NextPrice]_vars

-----------------------------------------------------------------------------
(* generate_tags on keys made of up to MaxKeyWords words *)

MaxKeyWords == 5

\* a word that is also a category tag, and five that are no tag
KeyWords == { <<"n","a","t","u","r","e">>, <<"b","a","y">>, <<"o","a","k">>,
              <<"s","u","n">>, <<"s","e","a">>, <<"e","l","m">> }

\* "-".join(words)
RECURSIVE Join(_)
Join(words) ==
    IF words = <<>> THEN <<>>
    ELSE IF Len(words) = 1 THEN Head(words)
    ELSE Head(words) \o <<"-">> \o Join(Tail(words))

\* keys with a word of two characters, a location name and a tag of two words
ExtraKeys == { <<"a","b","-","b","a","y","-","o","f","-","s","u","n">>,
               <<"h","a","w","a","i","i","-","s","e","a","-","h","a","w","a","i","i">>,
               <<"w","a","l","l","-","a","r","t","-","l","a","n","d","s","c","a","p","e">>,
               <<"p","h","o","t","o","g","r","a","p","h","y","-","s","c","e","n","i","c","-","a","b","-","o","a","k","-","s","u","n","-","s","e","a","-","e","l","m","-","b","a","y">> }

TagKeys ==
    { Join(ws) : ws \in UNION { [1..n -> KeyWords] : n \in 0..MaxKeyWords } }
        \cup ExtraKeys
TagCategories == {Landscapes, Other}
TagLocations == {Hawaii, Other}

InitTags ==
    /\ PipelineIdle
    /\ fpc = "call"
    /\ arg \in [key : TagKeys, category : TagCategories, location : TagLocations]
    /\ res = <<>>

CallGenerateTags ==
    /\ fpc = "call"
    /\ res' = generate_tags(arg.key, arg.category, arg.location)
    /\ fpc' = "ret"
    /\ UNCHANGED <<arg, pipeVars>>

NextTags == CallGenerateTags

SpecTags == InitTags /\ [][NextTags]_vars

-----------------------------------------------------------------------------
(* The input tree of main(): files with their stems and directories *)

\* File stems; a file record holds the index of its stem.
StemTable == << <<"O","a","k"," ","B","a","y","_","m","a","i","n","_","0","1","_","1","2","3","4">>,
                <<"o","a","k","-","b","a","y","-","e","x","t","r","a","-","0","2","-","1","2","3","4","-","a","b">>,
                <<"O","A","K","_","B","A","Y"," ","1","2","3","4">>,
                <<"P","i","e","r","_","s","u","n","s","e","t">>,
                <<"p","i","e","r","-","0","0","0","1">> >>

\* Directories under INPUT_ROOT; a file record holds the index of its directory.
DirTable == << <<"L","a","n","d","s","c","a","p","e","/","B","i","g","_","S","u","r">>,
               <<"m","i","s","c">>,
               <<"M","a","u","i","/","S","k","y","l","i","n","e">>,
               <<"S","e","d","o","n","a">> >>

INPUT_ROOT == <<"/","V","o","l","u","m","e","s","/","L","a","C","i","e","/","E","t","s","y">>

DigitChars == <<"0","1","2","3","4","5","6","7","8","9">>

\* str(n)
RECURSIVE Decimal(_)
Decimal(n) ==
    IF n < 10 THEN <<DigitChars[n + 1]>>
    ELSE Decimal(n \div 10) \o <<DigitChars[(n % 10) + 1]>>

\* str(p): root, directory, a subdirectory named after the rank of the path
\* in sorted order (it keeps the paths of two files apart), stem, extension
PathText(f) ==
    INPUT_ROOT \o <<"/">> \o DirTable[f.dir] \o <<"/">> \o Decimal(f.ord)
               \o <<"/">> \o StemTable[f.stem] \o <<".", "j", "p", "g">>

-----------------------------------------------------------------------------
(* parse_metadata_from_path *)

\* needle in hay
Contains(hay, needle) ==
    \E i \in 0..(Len(hay) - Len(needle)) :
        \A j \in 1..Len(needle) : hay[i + j] = needle[j]

\* any(x in path_str for x in needles)
AnyIn(path_str, needles) == \E x \in needles : Contains(path_str, x)

LandscapeWords == { <<"l","a","n","d","s","c","a","p","e">>,
          <<"n","a","t","u","r","e">>,
          <<"s","c","e","n","i","c">> }
ArchitectureWords == { <<"a","r","c","h","i","t","e","c","t","u","r","e">>,
          <<"b","u","i","l","d","i","n","g">>,
          <<"s","t","r","u","c","t","u","r","e">> }
CityWords == { <<"c","i","t","y">>,
          <<"u","r","b","a","n">>,
          <<"s","k","y","l","i","n","e">> }
NatureWords == { <<"n","a","t","u","r","e">>,
          <<"w","i","l","d","l","i","f","e">>,
          <<"n","a","t","u","r","a","l">> }
HawaiiWords == { <<"h","a","w","a","i","i">>,
          <<"m","a","u","i">>,
          <<"o","a","h","u">> }
CaliforniaWords == { <<"c","a","l","i","f","o","r","n","i","a">>,
          <<"c","a">>,
          <<"b","i","g","_","s","u","r">>,
          <<"c","a","r","m","e","l">>,
          <<"m","o","n","t","e","r","e","y">> }
ArizonaWords == { <<"a","r","i","z","o","n","a">>,
          <<"a","z">>,
          <<"s","e","d","o","n","a">>,
          <<"f","l","a","g","s","t","a","f","f">> }

parse_metadata_from_path(f) ==
    LET path_str == Lower(PathText(f))
    IN  [ category |->
              IF AnyIn(path_str, LandscapeWords) THEN Landscapes
              ELSE IF AnyIn(path_str, ArchitectureWords) THEN Architecture
              ELSE IF AnyIn(path_str, CityWords) THEN Cityscapes
              ELSE IF AnyIn(path_str, NatureWords) THEN Nature
              ELSE Other,
          location |->
              IF AnyIn(path_str, HawaiiWords) THEN Hawaii
              ELSE IF AnyIn(path_str, CaliforniaWords) THEN California
              ELSE IF AnyIn(path_str, ArizonaWords) THEN Arizona
              ELSE Other ]

-----------------------------------------------------------------------------
(* Inputs of main(): one product of up to MaxFiles files and, beside it, a  *)
(* second product of up to MaxOtherFiles files.  A file is                  *)
(*   ord   the rank of its path among all paths (list.sort() sorts by it),  *)
(*   stem  its stem, dir its directory (indexes into the tables),           *)
(*   ok    whether Image.open can read it (load_rgb returns an image),      *)
(*   hash  its content (md5hash returns its digest).                        *)

MaxFiles == 11
MaxOtherFiles == 2

\* which files of a product of n files are unreadable: none, the first, the
\* second, the last, or all of them
BadChoices(n) == { b \in {{}, {1}, {2}, {n}, 1..n} : b \subseteq 1..n }

\* the i-th file (in path order) of the first and of the second product; two
\* consecutive files of a product have the same content
FirstFile(i, bad) ==
    [ord |-> 2 * i - 1, stem |-> ((i - 1) % 3) + 1, dir |-> IF i = 1 THEN 1 ELSE 2,
     ok |-> i \notin bad, hash |-> i \div 2]
OtherFile(i, bad) ==
    [ord |-> 2 * i, stem |-> 4 + ((i - 1) % 2), dir |-> IF i = 1 THEN 3 ELSE 4,
     ok |-> i \notin bad, hash |-> 100 + (i \div 2)]

\* the files in path order, the two products interleaved
RECURSIVE Interleave(_, _)
Interleave(a, b) ==
    IF a = <<>> THEN b
    ELSE IF b = <<>> THEN a
    ELSE IF Head(a).ord < Head(b).ord THEN <<Head(a)>> \o Interleave(Tail(a), b)
    ELSE <<Head(b)>> \o Interleave(a, Tail(b))

Reverse(s) == [i \in 1..Len(s) |-> s[Len(s) + 1 - i]]

\* rglob yields the files in no particular order: in path order or reversed
Trees ==
    { IF rev THEN Reverse(Interleave(a, b)) ELSE Interleave(a, b) :
        <<a, b, rev>> \in
            { [i \in 1..n |-> FirstFile(i, bad)] :
                <<n, bad>> \in { x \in (1..MaxFiles) \X SUBSET (1..MaxFiles) :
                                   x[2] \in BadChoices(x[1]) } }
            \X
            { [i \in 1..n |-> OtherFile(i, bad)] :
                <<n, bad>> \in { x \in (0..MaxOtherFiles) \X SUBSET (1..MaxOtherFiles) :
                                   x[2] \in BadChoices(x[1]) } }
            \X BOOLEAN }

-----------------------------------------------------------------------------
(* The pure functions main() calls, tabulated once over the stems,          *)
(* directories and path ranks the input trees are made of.                   *)

\* the largest rank of a path in a tree
MaxOrd == 2 * (MaxFiles + MaxOtherFiles)

CategoryNames == <<Architecture, Landscapes, Cityscapes, Nature, Other>>
LocationNames == <<California, Hawaii, Arizona, Other>>
IndexIn(names, v) == CHOOSE i \in 1..Len(names) : names[i] = v

\* entry n of a table is the function at the n-th combination of inputs;
\* a table is built by halves, << entry lo, ..., entry hi >>
RECURSIVE KeysBetween(_, _)
KeysBetween(lo, hi) ==
    IF lo > hi THEN <<>>
    ELSE IF lo = hi THEN << product_key(StemTable[lo]) >>
    ELSE KeysBetween(lo, (lo + hi) \div 2) \o KeysBetween(((lo + hi) \div 2) + 1, hi)
KeyTable == KeysBetween(1, Len(StemTable))

MetadataIndex(f) ==
    ((f.dir - 1) * Len(StemTable) + (f.stem - 1)) * MaxOrd + f.ord
MetadataEntry(n) ==
    parse_metadata_from_path(
        [dir |-> ((n - 1) \div (MaxOrd * Len(StemTable))) + 1,
         stem |-> (((n - 1) \div MaxOrd) % Len(StemTable)) + 1,
         ord |-> ((n - 1) % MaxOrd) + 1])
RECURSIVE MetadataBetween(_, _)
MetadataBetween(lo, hi) ==
    IF lo > hi THEN <<>>
    ELSE IF lo = hi THEN << MetadataEntry(lo) >>
    ELSE MetadataBetween(lo, (lo + hi) \div 2)
             \o MetadataBetween(((lo + hi) \div 2) + 1, hi)
MetadataTable == MetadataBetween(1, Len(DirTable) * Len(StemTable) * MaxOrd)

TagsIndex(stem, category, location) ==
    ((stem - 1) * Len(CategoryNames) + (IndexIn(CategoryNames, category) - 1))
        * Len(LocationNames) + IndexIn(LocationNames, location)
TagsEntry(n) ==
    StrAll(generate_tags(
        KeyTable[((n - 1) \div (Len(LocationNames) * Len(CategoryNames))) + 1],
        CategoryNames[(((n - 1) \div Len(LocationNames)) % Len(CategoryNames)) + 1],
        LocationNames[((n - 1) % Len(LocationNames)) + 1]))
RECURSIVE TagsBetween(_, _)
TagsBetween(lo, hi) ==
    IF lo > hi THEN <<>>
    ELSE IF lo = hi THEN << TagsEntry(lo) >>
    ELSE TagsBetween(lo, (lo + hi) \div 2) \o TagsBetween(((lo + hi) \div 2) + 1, hi)
TagsTable == TagsBetween(1, Len(StemTable) * Len(CategoryNames) * Len(LocationNames))

\* product_key(p)
KeyOf(f) == KeyTable[f.stem]
\* parse_metadata_from_path(p)
MetadataOf(f) == MetadataTable[MetadataIndex(f)]
\* generate_tags(key, category, location), for the key of the stem of f
TagsOf(f, category, location) == TagsTable[TagsIndex(f.stem, category, location)]

-----------------------------------------------------------------------------
(* Configuration and helpers of main() *)

VARIANTS == << [label |-> "etsy_primary_3000x2400", w |-> 3000, h |-> 2400, bg |-> "#ffffff"],
               [label |-> "etsy_square_2000", w |-> 2000, h |-> 2000, bg |-> "#ffffff"],
               [label |-> "website_large_1600", w |-> 1600, h |-> 1600, bg |-> "#ffffff"],
               [label |-> "website_medium_1000", w |-> 1000, h |-> 1000, bg |-> "#ffffff"],
               [label |-> "website_thumb_400", w |-> 400, h |-> 400, bg |-> "#ffffff"] >>

MAX_EXTRAS == 9

\* the values a path and a group can have
Paths == [ord : Nat, stem : Nat, dir : Nat, ok : BOOLEAN, hash : Nat]
Grouped == [key : Seq(STRING), files : Seq(Paths)]

\* the loop of lines 252-255: groups.setdefault(key, []).append(p); a dict
\* keeps its keys in insertion order
AddFiles[gs \in Seq(Grouped), fs \in Seq(Paths)] ==
    IF fs = <<>> THEN gs
    ELSE LET p == Head(fs)
             key == KeyOf(p)
             at == { g \in 1..Len(gs) : gs[g].key = key }
         IN  IF at = {}
             THEN AddFiles[Append(gs, [key |-> key, files |-> <<p>>]), Tail(fs)]
             ELSE AddFiles[[gs EXCEPT ![CHOOSE g \in at : TRUE].files = Append(@, p)],
                           Tail(fs)]

\* list.sort() on paths
Insert[sorted \in Seq(Paths), f \in Paths] ==
    IF sorted = <<>> THEN <<f>>
    ELSE IF f.ord < Head(sorted).ord THEN <<f>> \o sorted
    ELSE <<Head(sorted)>> \o Insert[Tail(sorted), f]
Sort[fs \in Seq(Paths)] ==
    IF fs = <<>> THEN <<>> ELSE Insert[Sort[Tail(fs)], Head(fs)]

\* lines 258-259: every group's list of files is sorted
SortEach[gs \in Seq(Grouped)] ==
    IF gs = <<>> THEN <<>>
    ELSE <<[Head(gs) EXCEPT !.files = Sort[@]]>> \o SortEach[Tail(gs)]

\* lines 249-259
GroupImages[fs \in Seq(Paths)] == SortEach[AddFiles[<<>>, fs]]

\* load_rgb: the image, or None when Image.open raises
load_rgb(f) == IF f.ok THEN [loaded |-> TRUE, src |-> f.ord] ELSE NoImage

\* md5hash: the digest of the content
md5hash(f) == Str(Decimal(f.hash))

\* pathlib's a / b
PathJoin(a, b) == IF b = "" THEN a ELSE a \o "/" \o b

\* OUTPUT_ROOT / "etsy_images" / key
ProductDir(key) == PathJoin(PathJoin("OUTPUT_ROOT", "etsy_images"), Str(key))

\* product_dir / f"{key}_{label}.jpg"
VariantPath(key, label) ==
    PathJoin(ProductDir(key), Str(key) \o "_" \o label \o ".jpg")

\* a bug: the index is left out of the name of an extra
ExtraPath_NoIndex(key, i, hash) ==
    PathJoin(ProductDir(key), Str(key) \o "_extra_" \o hash \o ".jpg")

\* product_dir / f"{key}_extra_{i+1}_{md5hash(extra_file)}.jpg"
ExtraPath(key, i, hash) ==
    PathJoin(ProductDir(key),
             Str(key) \o "_extra_" \o Str(Decimal(i + 1)) \o "_" \o hash \o ".jpg")

\* a bug: every file after the first is taken
ExtraSlice_NoCap(fs) == SubSeq(fs, 2, Len(fs))

\* files[1:MAX_EXTRAS + 1]
ExtraSlice(fs) ==
    SubSeq(fs, 2, IF Len(fs) < MAX_EXTRAS + 1 THEN Len(fs) ELSE MAX_EXTRAS + 1)

\* sep.join(strings)
RECURSIVE JoinStr(_, _)
JoinStr(strings, sep) ==
    IF strings = <<>> THEN ""
    ELSE IF Len(strings) = 1 THEN Head(strings)
    ELSE Head(strings) \o sep \o JoinStr(Tail(strings), sep)

\* d.get(k, "") on a dict with string keys
GetStr(d, k) == IF k \in DOMAIN d THEN d[k] ELSE ""

RECURSIVE SumSourceFiles(_)
SumSourceFiles(listings) ==
    IF listings = <<>> THEN 0
    ELSE Head(listings).source_files + SumSourceFiles(Tail(listings))

\* how many listings have the value v in field "category" / "location"
CountCategory(listings, v) ==
    Cardinality({ i \in 1..Len(listings) : listings[i].category = v })
CountLocation(listings, v) ==
    Cardinality({ i \in 1..Len(listings) : listings[i].location = v })

\* a bug: the report counts every file of the tree
ReportOf_AllFiles(listings) ==
    [ written |-> TRUE,
      total_products |-> Len(listings),
      total_images_processed |-> Len(files),
      categories |-> [c \in { listings[i].category : i \in 1..Len(listings) } |->
                         CountCategory(listings, c)],
      locations |-> [l \in { listings[i].location : i \in 1..Len(listings) } |->
                        CountLocation(listings, l)] ]

\* lines 391-398: the report, computed from etsy_listings
ReportOf(listings) ==
    [ written |-> TRUE,
      total_products |-> Len(listings),
      total_images_processed |-> SumSourceFiles(listings),
      categories |-> [c \in { listings[i].category : i \in 1..Len(listings) } |->
                         CountCategory(listings, c)],
      locations |-> [l \in { listings[i].location : i \in 1..Len(listings) } |->
                        CountLocation(listings, l)] ]

\* lines 372-383: the rows of products_for_import.csv
ImportRows(products) ==
    [i \in 1..Len(products) |->
        [ image_url |-> products[i].web_path,
          base_price |-> products[i].base_price,
          category |-> products[i].category,
          tags |-> JoinStr(products[i].tags, ", ") ]]

-----------------------------------------------------------------------------
(* main(): the state after the output directories exist (line 245)          *)

Init ==
    /\ pc = "scan"
    /\ files \in Trees
    /\ groups = <<>>
    /\ gi = 0
    /\ im = NoImage
    /\ vi = 0
    /\ variant_paths = <<>>
    /\ ei = 0
    /\ additional_images = <<>>
    /\ metadata = <<>>
    /\ product = <<>>
    /\ etsy_listings = <<>>
    /\ website_products = <<>>
    /\ written = <<>>
    /\ dirs = {}
    /\ outcome = <<>>
    /\ report = NoReport
    /\ exported = <<>>
    /\ fpc = "idle"
    /\ arg = <<>>
    /\ res = <<>>

Cur == groups[gi]

\* The locals of an iteration are dead once it ends: every one is assigned
\* again before the next iteration reads it.
DropLocals ==
    /\ im' = NoImage
    /\ vi' = 0
    /\ variant_paths' = <<>>
    /\ ei' = 0
    /\ additional_images' = <<>>
    /\ metadata' = <<>>
    /\ product' = <<>>

\* lines 249-266: scan, group, sort, and the three empty result lists
Group ==
    /\ pc = "scan"
    /\ groups' = GroupImages[files]
    /\ outcome' = [g \in 1..Len(groups') |-> "pending"]
    /\ pc' = "loop"
    /\ UNCHANGED <<files, gi, locals, etsy_listings, website_products, written,
                   dirs, report, exported, funVars>>

\* line 268: the loop takes the next group
NextGroup ==
    /\ pc = "loop"
    /\ gi < Len(groups)
    /\ gi' = gi + 1
    /\ pc' = "mkdir"
    /\ UNCHANGED <<files, groups, locals, etsy_listings, website_products,
                   written, dirs, outcome, report, exported, funVars>>

\* a bug: the handler leaves the loop
ExceptBreak ==
    /\ outcome' = [outcome EXCEPT ![gi] = "error"]
    /\ gi' = Len(groups)
    /\ pc' = "loop"
    /\ DropLocals
    /\ UNCHANGED <<files, groups, etsy_listings, website_products, written,
                   dirs, report, exported, funVars>>

\* a bug: no handler, the exception ends the run
ExceptAbort ==
    /\ outcome' = [outcome EXCEPT ![gi] = "error"]
    /\ pc' = "aborted"
    /\ DropLocals
    /\ UNCHANGED <<files, groups, gi, etsy_listings, website_products, written,
                   dirs, report, exported, funVars>>

\* lines 352-354: an exception raised in the try block is reported and the
\* loop goes on with the next group
ExceptContinue ==
    /\ outcome' = [outcome EXCEPT ![gi] = "error"]
    /\ pc' = "loop"
    /\ DropLocals
    /\ UNCHANGED <<files, groups, gi, etsy_listings, website_products, written,
                   dirs, report, exported, funVars>>

\* lines 271-272: the product directory is created
Mkdir ==
    /\ pc = "mkdir"
    /\ dirs' = dirs \cup {ProductDir(Cur.key)}
    /\ pc' = "load"
    /\ UNCHANGED <<files, groups, gi, locals, etsy_listings, website_products,
                   written, outcome, report, exported, funVars>>

\* line 272: mkdir raises
MkdirFail ==
    /\ pc = "mkdir"
    /\ ExceptContinue

\* lines 275-281: the metadata of the first file; the first file is loaded,
\* and None ends the group's iteration
LoadPrimary ==
    /\ pc = "load"
    /\ LET loaded == load_rgb(Cur.files[1])
       IN  IF loaded = NoImage
           THEN /\ outcome' = [outcome EXCEPT ![gi] = "no_primary"]
                /\ pc' = "loop"
                /\ DropLocals
           ELSE /\ metadata' = MetadataOf(Cur.files[1])
                /\ im' = loaded
                /\ vi' = 1
                /\ pc' = "variants"
                /\ UNCHANGED <<outcome, variant_paths, ei, additional_images,
                               product>>
    /\ UNCHANGED <<files, groups, gi, etsy_listings, website_products, written,
                   dirs, report, exported, funVars>>

\* where the iteration goes once the extras loop has taken its i-th file
AfterExtra(i) ==
    pc' = IF i < Len(ExtraSlice(Cur.files)) THEN "extras" ELSE "compose"

\* lines 285-291: one turn of the variants loop
SaveVariant ==
    /\ pc = "variants"
    /\ LET label == VARIANTS[vi].label
           output_path == VariantPath(Cur.key, label)
       IN  /\ written' = Append(written, [path |-> output_path, kind |-> "variant",
                                          src |-> im.src, group |-> gi])
           /\ variant_paths' =
                  [l \in DOMAIN variant_paths \cup {label} |->
                      IF l = label THEN output_path ELSE variant_paths[l]]
    /\ IF vi < Len(VARIANTS)
       THEN /\ vi' = vi + 1
            /\ pc' = "variants"
            /\ ei' = ei
       ELSE /\ vi' = vi
            /\ ei' = 0
            /\ AfterExtra(0)
    /\ UNCHANGED <<files, groups, gi, im, additional_images, metadata, product,
                   etsy_listings, website_products, dirs, outcome, report,
                   exported, funVars>>

\* lines 286-290: pad_resize or save raises on the primary image
SaveVariantFail ==
    /\ pc = "variants"
    /\ ExceptContinue

\* lines 295-298: an extra that cannot be opened is passed over
ExtraSkip ==
    /\ pc = "extras"
    /\ load_rgb(ExtraSlice(Cur.files)[ei + 1]) = NoImage
    /\ ei' = ei + 1
    /\ AfterExtra(ei + 1)
    /\ UNCHANGED <<files, groups, gi, im, vi, variant_paths, additional_images,
                   metadata, product, etsy_listings, website_products, written,
                   dirs, outcome, report, exported, funVars>>

\* lines 295-306: one extra is resized and saved
ExtraSave ==
    /\ pc = "extras"
    /\ LET extra_file == ExtraSlice(Cur.files)[ei + 1]
           extra_path == ExtraPath(Cur.key, ei, md5hash(extra_file))
       IN  /\ load_rgb(extra_file) # NoImage
           /\ written' = Append(written, [path |-> extra_path, kind |-> "extra",
                                          src |-> extra_file.ord, group |-> gi])
           /\ additional_images' = Append(additional_images, extra_path)
    /\ ei' = ei + 1
    /\ AfterExtra(ei + 1)
    /\ UNCHANGED <<files, groups, gi, im, vi, variant_paths, metadata, product,
                   etsy_listings, website_products, dirs, outcome, report,
                   exported, funVars>>

\* lines 301-305: pad_resize or save raises on an extra
ExtraFail ==
    /\ pc = "extras"
    /\ load_rgb(ExtraSlice(Cur.files)[ei + 1]) # NoImage
    /\ ExceptContinue

\* lines 309-314: category, location, price and tags of the product
ProductData ==
    /\ pc = "compose"
    /\ ~calculate_price(metadata.category, metadata.location).raised
    /\ product' = [ price |-> calculate_price(metadata.category,
                                              metadata.location).value,
                    tags |-> TagsOf(Cur.files[1], metadata.category,
                                    metadata.location) ]
    /\ pc' = "etsy"
    /\ UNCHANGED <<files, groups, gi, im, vi, variant_paths, ei,
                   additional_images, metadata, etsy_listings, website_products,
                   written, dirs, outcome, report, exported, funVars>>

\* a bug: the exception comes after the marketplace record was appended
ProductDataFail_Late ==
    /\ pc = "website"
    /\ ExceptContinue

\* lines 309-314: one of the helpers called there raises
ProductDataFail ==
    /\ pc = "compose"
    /\ ExceptContinue

\* lines 317-332: the marketplace record is built and appended
ComposeEtsy ==
    /\ pc = "etsy"
    /\ etsy_listings' = Append(etsy_listings,
          [ sku |-> Str(Cur.key),
            price |-> ToString(product.price) \o ".00",
            tags |-> JoinStr(product.tags, ", "),
            category |-> Str(metadata.category),
            location |-> Str(metadata.location),
            primary_image |-> GetStr(variant_paths, "etsy_primary_3000x2400"),
            additional_images |->
                JoinStr(<<GetStr(variant_paths, "etsy_square_2000")>>
                            \o additional_images, ", "),
            folder |-> ProductDir(Cur.key),
            source_files |-> Len(Cur.files) ])
    /\ pc' = "website"
    /\ UNCHANGED <<files, groups, gi, locals, website_products, written, dirs,
                   outcome, report, exported, funVars>>

\* lines 335-350: the website record is built and appended; the iteration ends
ComposeWebsite ==
    /\ pc = "website"
    /\ website_products' = Append(website_products,
          [ id |-> Str(Cur.key),
            category |-> Str(metadata.category),
            location |-> Str(metadata.location),
            web_path |-> "/images/" \o Str(Cur.key) \o "_website_medium_1000.jpg",
            thumbnail_path |-> "/images/" \o Str(Cur.key) \o "_website_thumb_400.jpg",
            large_path |-> "/images/" \o Str(Cur.key) \o "_website_large_1600.jpg",
            dimensions |-> im.src,
            tags |-> product.tags,
            base_price |-> product.price,
            variants |-> variant_paths ])
    /\ outcome' = [outcome EXCEPT ![gi] = "ok"]
    /\ pc' = "loop"
    /\ DropLocals
    /\ UNCHANGED <<files, groups, gi, etsy_listings, written, dirs, report,
                   exported, funVars>>

\* lines 357-409: the catalogs and the report are written
Export ==
    /\ pc = "loop"
    /\ gi = Len(groups)
    /\ exported' = [ etsy_csv |-> etsy_listings,
                     website_json |-> website_products,
                     website_csv |-> ImportRows(website_products) ]
    /\ report' = ReportOf(etsy_listings)
    /\ pc' = "done"
    /\ UNCHANGED <<files, groups, gi, locals, etsy_listings, website_products,
                   written, dirs, outcome, funVars>>

Next ==
    \/ Group
    \/ NextGroup
    \/ Mkdir
    \/ MkdirFail
    \/ LoadPrimary
    \/ SaveVariant
    \/ SaveVariantFail
    \/ ExtraSkip
    \/ ExtraSave
    \/ ExtraFail
    \/ ProductData
    \/ ProductDataFail
    \/ ComposeEtsy
    \/ ComposeWebsite
    \/ Export

Spec == Init /\ [][Next]_vars

\* The run is one sequential pass: a step that can be taken is taken.
FairSpec == Spec /\ WF_vars(Next)

-----------------------------------------------------------------------------
(* Vocabulary of the properties of main() *)

Done == pc = "done"

GroupIds == 1..Len(groups)
Skus == { etsy_listings[i].sku : i \in 1..Len(etsy_listings) }
Ids == { website_products[i].id : i \in 1..Len(website_products) }

\* the files of group g that load_rgb can open
Decodable(g) == { k \in 1..Len(groups[g].files) : groups[g].files[k].ok }
AllDecodable(g) == Decodable(g) = 1..Len(groups[g].files)

\* the image writes of group g, of one kind
Writes(g, kind) ==
    { i \in 1..Len(written) : written[i].group = g /\ written[i].kind = kind }

\* the groups whose iteration ran to its end
OkGroups == { g \in GroupIds : outcome[g] = "ok" }

RECURSIVE SumFiles(_)
SumFiles(gs) ==
    IF gs = {} THEN 0
    ELSE LET g == CHOOSE x \in gs : TRUE
         IN  Len(groups[g].files) + SumFiles(gs \ {g})

RECURSIVE SumCounts(_)
SumCounts(f) ==
    IF DOMAIN f = {} THEN 0
    ELSE LET k == CHOOSE x \in DOMAIN f : TRUE
         IN  f[k] + SumCounts([x \in DOMAIN f \ {k} |-> f[x]])

-----------------------------------------------------------------------------
\* C1: whatever files fail to decode and whatever groups fail, the run leaves
\* the group loop, reaches the export step and writes the report, and the
\* report's total_products is the number of groups processed successfully.
C1_RunCompletesWithReport ==
    <>(/\ Done
       /\ report.written
       /\ report.total_products = Cardinality(OkGroups))

\* a finished run in which one group failed with an exception, another was
\* processed, and the report counts one product
C1_Witness ==
    /\ Done
    /\ report.written
    /\ \E g \in GroupIds : outcome[g] = "error"
    /\ \E g \in GroupIds : outcome[g] = "ok" /\ ~AllDecodable(g)
    /\ report.total_products = 1

-----------------------------------------------------------------------------
\* C2: a failure raised at a step of a group's processing skips the group:
\* the group has no record in etsy_listings and none in website_products, the
\* step that handles the failure leaves both lists as they were, and the run
\* ends with every group taken by the loop.
C2_FailedGroupHasNoRecord ==
    \A g \in GroupIds :
        outcome[g] = "error" =>
            /\ Str(groups[g].key) \notin Skus
            /\ Str(groups[g].key) \notin Ids
C2_AllGroupsTaken ==
    Done => \A g \in GroupIds : outcome[g] # "pending"
C2_FailureKeepsRecords ==
    (\E g \in GroupIds : outcome[g] # "error" /\ outcome'[g] = "error") =>
        /\ etsy_listings' = etsy_listings
        /\ website_products' = website_products
C2_FailureSkipsGroup ==
    /\ [](C2_FailedGroupHasNoRecord /\ C2_AllGroupsTaken)
    /\ [][C2_FailureKeepsRecords]_vars

\* a finished run whose first group failed after some of its variants were
\* written and whose second group has its two records
C2_Witness ==
    /\ Done
    /\ Len(groups) = 2
    /\ outcome = <<"error", "ok">>
    /\ Writes(1, "variant") # {}
    /\ Skus = {Str(groups[2].key)}
    /\ Ids = {Str(groups[2].key)}

-----------------------------------------------------------------------------
\* C3: in a group of two or more files of which at least one is decodable,
\* an undecodable file (the primary or an extra) does not fail the group: if
\* no exception was raised for it, the group has its marketplace record and
\* its website record.
C3_DecodeFailureSkipsOnlyTheFile ==
    Done =>
        \A g \in GroupIds :
            (/\ Len(groups[g].files) >= 2
             /\ Decodable(g) # {}
             /\ outcome[g] # "error")
            => /\ Str(groups[g].key) \in Skus
               /\ Str(groups[g].key) \in Ids

-----------------------------------------------------------------------------
\* C4: a group none of whose files is decodable has no entry in
\* etsy_listings and none in website_products, and the report's totals
\* (products, images, per-category and per-location counts) count only the
\* other groups.
C4_DeadGroups == { g \in GroupIds : Decodable(g) = {} }
C4_UndecodableGroupCountsNothing ==
    Done =>
        /\ \A g \in C4_DeadGroups :
               /\ Str(groups[g].key) \notin Skus
               /\ Str(groups[g].key) \notin Ids
               /\ Writes(g, "variant") \cup Writes(g, "extra") = {}
        /\ report.total_products <= Cardinality(GroupIds \ C4_DeadGroups)
        /\ report.total_images_processed <= SumFiles(GroupIds \ C4_DeadGroups)
        /\ SumCounts(report.categories) <= Cardinality(GroupIds \ C4_DeadGroups)
        /\ SumCounts(report.locations) <= Cardinality(GroupIds \ C4_DeadGroups)

\* a finished run with a group of two undecodable files beside a group that
\* was processed
C4_Witness ==
    /\ Done
    /\ \E g \in C4_DeadGroups : Len(groups[g].files) = 2
    /\ \E g \in GroupIds : outcome[g] = "ok"
    /\ report.total_products = 1

-----------------------------------------------------------------------------
\* C5: a successfully processed group has exactly the five variant images of
\* VARIANTS, all made from its first file in sorted order, and at most
\* MAX_EXTRAS extras; when all its files decode it has min(MAX_EXTRAS, n - 1)
\* extras; no file after the (MAX_EXTRAS + 1)-th is ever transformed.
C5_Labels == { VARIANTS[i].label : i \in 1..Len(VARIANTS) }
C5_VariantsAndExtras ==
    /\ \A i \in 1..Len(written) :
           \E k \in 1..(MAX_EXTRAS + 1) :
               /\ k <= Len(groups[written[i].group].files)
               /\ groups[written[i].group].files[k].ord = written[i].src
    /\ \A g \in OkGroups :
           LET n == Len(groups[g].files)
               key == groups[g].key
           IN  /\ Cardinality(Writes(g, "variant")) = 5
               /\ { written[i].path : i \in Writes(g, "variant") }
                      = { VariantPath(key, l) : l \in C5_Labels }
               /\ \A i \in Writes(g, "variant") :
                      written[i].src = groups[g].files[1].ord
               /\ \A j \in 1..Len(website_products) :
                      website_products[j].id = Str(key) =>
                          DOMAIN website_products[j].variants = C5_Labels
               /\ Cardinality(Writes(g, "extra")) <= MAX_EXTRAS
               /\ AllDecodable(g) =>
                      Cardinality(Writes(g, "extra")) =
                          IF n - 1 < MAX_EXTRAS THEN n - 1 ELSE MAX_EXTRAS

\* a finished run with a processed group of eleven decodable files: five
\* variants and nine extras
C5_Witness ==
    /\ Done
    /\ \E g \in OkGroups :
           /\ Len(groups[g].files) = 11
           /\ AllDecodable(g)
           /\ Cardinality(Writes(g, "variant")) = 5
           /\ Cardinality(Writes(g, "extra")) = 9

-----------------------------------------------------------------------------
(* Vocabulary of the properties of the pure functions *)

Returns == fpc = "ret"

\* the characters of a slug and the shape of a slug: lowercase letters and
\* digits, separated by single hyphens
IsSlug(s) ==
    /\ \A i \in 1..Len(s) : s[i] \in SlugChars \cup {"-"}
    /\ s # <<>> => s[1] # "-" /\ s[Len(s)] # "-"
    /\ \A i \in 1..(Len(s) - 1) : ~(s[i] = "-" /\ s[i + 1] = "-")

\* the entries of xs before position k, without repetition
SeenBefore(xs, k) == { xs[m] : m \in 1..(k - 1) }

\* PRICE_MATRIX read with the two fallbacks to "Other"
RowOf(category) ==
    IF category \in DOMAIN PRICE_MATRIX THEN PRICE_MATRIX[category]
    ELSE PRICE_MATRIX[Other]
EntryOf(category, location) ==
    IF location \in DOMAIN RowOf(category) THEN RowOf(category)[location]
    ELSE RowOf(category)[Other]

-----------------------------------------------------------------------------
\* C6: for every file name, whether PRODUCT_REGEX matches it or the
\* underscore-split fallback is taken, product_key returns a non-empty string
\* of at most 50 characters made of lowercase letters, digits and single
\* hyphens between them.
C6_KeyIsUsableSlug ==
    Returns => /\ res # <<>>
               /\ Len(res) <= SLUG_MAX_LENGTH
               /\ IsSlug(res)

-----------------------------------------------------------------------------
\* C7: generate_tags returns a list without duplicates, of at most 13
\* entries, whose i-th entry is the i-th distinct entry, in order of first
\* occurrence, of the list base tags, category tags, location tag, key tokens
\* longer than two characters.
C7_TagsDeduplicatedInOrder ==
    Returns =>
        \A all \in { AllTags(arg.key, arg.category, arg.location) } :
            /\ Len(res) <= 13
            /\ \A i, j \in 1..Len(res) : i # j => res[i] # res[j]
            /\ \A i \in 1..Len(res) :
                   \E k \in 1..Len(all) :
                       /\ all[k] = res[i]
                       /\ all[k] \notin SeenBefore(all, k)
                       /\ Cardinality(SeenBefore(all, k)) = i - 1

\* a call whose list before deduplication has sixteen entries, two of them
\* repeated: thirteen tags come back, the repeated ones once
C7_Witness ==
    /\ Returns
    /\ Len(AllTags(arg.key, arg.category, arg.location)) = 16
    /\ Cardinality({ AllTags(arg.key, arg.category, arg.location)[k] : k \in 1..16 }) = 14
    /\ Len(res) = 13
    /\ Cardinality({ k \in 1..13 : res[k] = <<"s","c","e","n","i","c">> }) = 1

-----------------------------------------------------------------------------
\* C8: calculate_price never raises; a category that is not in PRICE_MATRIX
\* is priced by the "Other" row, a location that is not in the chosen row by
\* that row's "Other" column, and a pair of the matrix by its entry.
C8_PriceFallsBackToOther ==
    Returns => /\ ~res.raised
               /\ res.value = EntryOf(arg.category, arg.location)
               /\ (arg.category \in DOMAIN PRICE_MATRIX
                   /\ arg.location \in DOMAIN PRICE_MATRIX[arg.category])
                  => res.value = PRICE_MATRIX[arg.category][arg.location]

\* a call with a category and a location that are both missing from the
\* matrix, priced 25
C8_Witness ==
    /\ Returns
    /\ arg.category \notin DOMAIN PRICE_MATRIX
    /\ arg.location \notin DOMAIN PRICE_MATRIX[Other]
    /\ res = Returned(25)

-----------------------------------------------------------------------------
\* C9: no output image path is written twice in a run, and the writes of a
\* group all come before the first write of the next group.
C9_WriteOnce ==
    \A i, j \in 1..Len(written) :
        i < j => /\ written[i].path # written[j].path
                 /\ written[i].group <= written[j].group

\* the content of the file a write was made from
C9_HashOf(i) ==
    LET f == CHOOSE k \in 1..Len(files) : files[k].ord = written[i].src
    IN  files[f].hash

\* a finished run that wrote the images of two groups, among them two extras
\* of one group made from files of equal content
C9_Witness ==
    /\ Done
    /\ { written[i].group : i \in 1..Len(written) } = {1, 2}
    /\ \E i, j \in Writes(1, "extra") : i # j /\ C9_HashOf(i) = C9_HashOf(j)

-----------------------------------------------------------------------------
\* C10: between two group iterations and at export time etsy_listings and
\* website_products have the same length, their i-th records carry the same
\* key, category and location, no key occurs twice in either list, and after
\* the export the report's total_products is the length of both lists.
C10_ListsInLockStep ==
    pc \in {"loop", "done"} =>
        /\ Len(etsy_listings) = Len(website_products)
        /\ \A i \in 1..Len(etsy_listings) :
               /\ i <= Len(website_products)
               /\ etsy_listings[i].sku = website_products[i].id
               /\ etsy_listings[i].category = website_products[i].category
               /\ etsy_listings[i].location = website_products[i].location
        /\ \A i, j \in 1..Len(etsy_listings) :
               i # j => etsy_listings[i].sku # etsy_listings[j].sku
        /\ \A i, j \in 1..Len(website_products) :
               i # j => website_products[i].id # website_products[j].id
        /\ Done => /\ report.total_products = Len(etsy_listings)
                   /\ report.total_products = Len(website_products)

\* the loop after two iterations, one that processed its group and one that
\* failed on an exception, with one record in each list
C10_Witness ==
    /\ pc = "loop"
    /\ \E g \in GroupIds : outcome[g] = "error"
    /\ \E g \in GroupIds : outcome[g] = "ok"
    /\ Len(etsy_listings) = 1
    /\ Len(website_products) = 1

====
